---- MODULE Spec2Model ----
(***************************************************************************)
(* github-release-stats: the GithubStats API client (src/lib/fetch.js)     *)
(* and its paginated fetcher, driven by a caller and answered by a         *)
(* transport that serves a fixed chain of pages.                           *)
(*                                                                         *)
(* An async function runs synchronously up to its first await, so one      *)
(* action is one run of the code between two suspension points:            *)
(*   a client method    builds the URL and the headers, issues the request *)
(*   FetchResponse      the transport answers; status and link header are  *)
(*                      inspected; the next page is requested or the body  *)
(*                      read is started                                    *)
(*   FetchReject        the transport rejects the network call             *)
(*   ErrorBody          the body of a non-success response has been read   *)
(*   PageBody           the body of a successful response has been read;   *)
(*                      the frame returns to its caller                    *)
(***************************************************************************)
EXTENDS Integers, Sequences, FiniteSets, TLC

VARIABLES
    repoOwner,   \* GithubStats.repoOwner
    repoName,    \* GithubStats.repoName
    token,       \* GithubStats.token
    ctorToken,   \* the `token` argument the constructor was called with
    ctorEnv,     \* process.env.GITHUB_TOKEN when the constructor ran
    env,         \* process.env.GITHUB_TOKEN now
    sandbox,     \* typeof self !== 'undefined' (browser-like environment)
    server,      \* the pages the transport serves, page k at index k
    again,       \* TRUE once a client method has been invoked before
    op,          \* the client method in progress or last finished
    frames,      \* the stack of activations of GithubStats.fetch
    requests,    \* the network calls issued for the current invocation
    trace,       \* requests, responses and body reads of the invocation
    outcome,     \* the promise returned to the caller
    awaited,     \* the promise of the client method that the called one
                 \* awaits (getAllReleases in getTotalDownloads, ...)
    other,       \* a second invocation on the same instance, while the
                 \* event loop runs the first: its op, frames, requests,
                 \* trace, outcome and awaited, and whether the event loop has
                 \* ever left a pending invocation for a pending one
    cli          \* the GithubStatsCli object and what it did to the process

vars == <<repoOwner, repoName, token, ctorToken, ctorEnv, env, sandbox,
          server, again, op, frames, requests, trace, outcome, awaited,
          other, cli>>

(***************************************************************************)
(* Bounds of the model.                                                    *)
(***************************************************************************)
MaxPages == 3
MaxPerPage == 2
\* The requests after which an invocation is no longer followed.
MaxRequests == 6
\* The longest command line.
MaxArgs == 5

(***************************************************************************)
(* JavaScript values.                                                      *)
(***************************************************************************)
\* undefined, where an object is expected.
Undefined == [kind |-> "undefined"]

\* A JSON text is modelled by the value it denotes, or by InvalidBody when
\* it does not parse.
JArray(items) == [kind |-> "array", items |-> items]
JObject(obj) == [kind |-> "object", value |-> obj]
InvalidBody == [kind |-> "invalid"]

\* class GithubError extends Error
GithubError(message) == [name |-> "GithubError", message |-> message]

\* What response.json() throws on a body that is not JSON.
SyntaxError == [name |-> "SyntaxError", message |-> "Unexpected token"]

\* What reading `property` of undefined throws.
TypeError(property) ==
    [name |-> "TypeError",
     message |-> "Cannot read properties of undefined (reading '"
                 \o property \o "')"]

\* response.json(): the parsed value, or a thrown SyntaxError.
Json(body) ==
    IF body.kind = "invalid"
    THEN [thrown |-> TRUE, error |-> SyntaxError]
    ELSE [thrown |-> FALSE, value |-> body]

\* A variant of MessageOf that reads a field the error body does not have.
MessageOfOtherField(json) ==
    IF json.kind = "object" /\ "error" \in DOMAIN json.value
    THEN json.value.error
    ELSE ""

\* (json).message as the Error constructor takes it: a missing field is
\* undefined, and new Error(undefined).message is ''.
MessageOf(json) ==
    IF json.kind = "object" /\ "message" \in DOMAIN json.value
    THEN json.value.message
    ELSE ""

\* A variant of Flat that flattens the body itself: a lone object yields
\* nothing.
FlatUnwrapped(json) ==
    IF json.kind = "array" THEN json.items ELSE <<>>

\* [json].flat(): an array body yields its elements, a lone object yields
\* a one-element array.
Flat(json) ==
    IF json.kind = "array" THEN json.items ELSE <<json.value>>

\* A variant of Unshift that appends, as push does.
UnshiftAppend(result, items) == result \o items

\* result.unshift(...items): the items are placed before what is there.
Unshift(result, items) == items \o result

\* result.push(...items): the items are placed after what is there.
Push(result, items) == result \o items

(***************************************************************************)
(* The constructor.                                                        *)
(***************************************************************************)
\* a || b on strings: the empty string is falsy.
Or(a, b) == IF a # "" THEN a ELSE b

\* A variant of ResolveToken in which the environment comes first.
ResolveTokenEnvFirst(tokenArg, envToken, inSandbox) ==
    IF ~inSandbox
    THEN Or(Or(envToken, tokenArg), "")
    ELSE tokenArg

ResolveToken(tokenArg, envToken, inSandbox) ==
    IF ~inSandbox
    THEN Or(Or(tokenArg, envToken), "")
    ELSE tokenArg

(***************************************************************************)
(* URLs of the three endpoints.                                            *)
(***************************************************************************)
ApiRoot == "https://api.github.com/repos/"

AllReleasesUrl(owner, name) ==
    ApiRoot \o owner \o "/" \o name \o "/releases?per_page=100"

ReleaseUrl(owner, name, tag) ==
    ApiRoot \o owner \o "/" \o name \o "/releases/tags/" \o tag

LatestReleaseUrl(owner, name) ==
    ApiRoot \o owner \o "/" \o name \o "/releases/latest"

(***************************************************************************)
(* Request headers.                                                        *)
(***************************************************************************)
\* A variant of BuildHeaders that sets Authorization outside a sandbox only.
BuildHeadersNested(tok, inSandbox) ==
    IF ~inSandbox
    THEN {<<"User-Agent", "github-release-stats">>}
         \cup (IF tok # "" THEN {<<"Authorization", "token " \o tok>>} ELSE {})
    ELSE {}

BuildHeaders(tok, inSandbox) ==
    (IF ~inSandbox THEN {<<"User-Agent", "github-release-stats">>} ELSE {})
    \cup
    (IF tok # "" THEN {<<"Authorization", "token " \o tok>>} ELSE {})

RequestOf(url, tok, inSandbox) ==
    [url |-> url, method |-> "GET", headers |-> BuildHeaders(tok, inSandbox)]

(***************************************************************************)
(* The link header, a sequence of tokens: "<", a URL, a closing token      *)
(* such as >; rel="next" and the separator ", ".                           *)
(***************************************************************************)
RelClose(rel) == ">; rel=\"" \o rel \o "\""

LinkEntry(url, rel) == <<"<", url, RelClose(rel)>>

RECURSIVE ConcatTokens(_)
ConcatTokens(toks) ==
    IF toks = <<>> THEN "" ELSE Head(toks) \o ConcatTokens(Tail(toks))

\* A variant of MatchNext without the greedy prefix: the group starts at the
\* first "<" of the header.
MatchNextLeftmost(link) ==
    LET closes == {j \in 1..Len(link) : link[j] = RelClose("next")}
        opens == {i \in 1..Len(link) :
                     link[i] = "<" /\ \E j \in closes : j > i}
    IN  IF opens = {}
        THEN [matched |-> FALSE]
        ELSE LET i == CHOOSE a \in opens : \A b \in opens : a <= b
                 j == CHOOSE a \in closes : \A b \in closes : b <= a
             IN  [matched |-> TRUE,
                  url |-> ConcatTokens(SubSeq(link, i + 1, j - 1))]

\* link.match(/^.*<(.*)>; rel="next"/): the greedy ^.* stops at the last "<"
\* that is still followed by a >; rel="next", and the greedy group runs up
\* to the last >; rel="next" after it.
\* A variant of MatchNext whose pattern stops at `rel=`: the entry that
\* comes last is taken, whatever its relation.
MatchNextAnyRel(link) ==
    LET closes == {j \in 1..Len(link) :
                      link[j] \in {RelClose(rel) :
                                      rel \in {"prev", "next", "last", "first"}}}
        opens == {i \in 1..Len(link) : link[i] = "<" /\ \E j \in closes : j > i}
    IN  IF opens = {} THEN [matched |-> FALSE]
        ELSE LET i == CHOOSE a \in opens : \A b \in opens : b <= a
                 j == CHOOSE a \in closes : \A b \in closes : b <= a
             IN  [matched |-> TRUE, url |-> ConcatTokens(SubSeq(link, i + 1, j - 1))]

MatchNext(link) ==
    LET closes == {j \in 1..Len(link) : link[j] = RelClose("next")}
        opens == {i \in 1..Len(link) :
                     link[i] = "<" /\ \E j \in closes : j > i}
    IN  IF opens = {}
        THEN [matched |-> FALSE]
        ELSE LET i == CHOOSE a \in opens : \A b \in opens : b <= a
                 j == CHOOSE a \in closes : \A b \in closes : b <= a
             IN  [matched |-> TRUE,
                  url |-> ConcatTokens(SubSeq(link, i + 1, j - 1))]

(***************************************************************************)
(* Download counts.                                                        *)
(***************************************************************************)
RECURSIVE SumAssets(_, _)
\* assets.reduce((acc, asset) => acc + asset.download_count, acc0)
SumAssets(assets, acc) ==
    IF assets = <<>> THEN acc
    ELSE SumAssets(Tail(assets), acc + Head(assets).download_count)

RECURSIVE SumReleasesShadowed(_, _)
\* A variant of SumReleases whose inner reduce starts from the outer
\* accumulator.
SumReleasesShadowed(releases, acc) ==
    IF releases = <<>> THEN acc
    ELSE SumReleasesShadowed(Tail(releases),
                             acc + SumAssets(Head(releases).assets, acc))

RECURSIVE SumReleases(_, _)
\* releases.reduce((acc, release) => acc + release.assets.reduce(..., 0), acc0)
SumReleases(releases, acc) ==
    IF releases = <<>> THEN acc
    ELSE SumReleases(Tail(releases), acc + SumAssets(Head(releases).assets, 0))

\* release.assets can be read and reduced.
HasAssets(release) == "assets" \in DOMAIN release

\* response[0]
First(response) == IF response = <<>> THEN Undefined ELSE response[1]

Fulfilled(value) == [state |-> "fulfilled", value |-> value]
Rejected(error) == [state |-> "rejected", error |-> error]
Pending == [state |-> "pending"]
NoCall == [state |-> "none"]

\* The client method that `method` awaits: getTotalDownloads awaits
\* getAllReleases, getReleaseDownloads getRelease, getLatestReleaseDownloads
\* getLatestRelease; the three others await this.fetch themselves.
InnerMethod(method) ==
    CASE method = "getTotalDownloads" -> "getAllReleases"
      [] method = "getReleaseDownloads" -> "getRelease"
      [] method = "getLatestReleaseDownloads" -> "getLatestRelease"
      [] OTHER -> method

\* `return response` / `return response[0]`: what getAllReleases, getRelease
\* and getLatestRelease make of the array their fetch resolved with.
Return(method, response) ==
    IF method = "getAllReleases" THEN Fulfilled(response)
    ELSE Fulfilled(First(response))

\* What getTotalDownloads, getReleaseDownloads and getLatestReleaseDownloads
\* make of the value of the method they await.
Reduce(method, value) ==
    IF method = "getTotalDownloads"
    THEN IF \A i \in 1..Len(value) : HasAssets(value[i])
         THEN Fulfilled(SumReleases(value, 0))
         ELSE Rejected(TypeError("reduce"))
    ELSE IF HasAssets(value)
         THEN Fulfilled(SumAssets(value.assets, 0))
         ELSE IF value = Undefined THEN Rejected(TypeError("assets"))
         ELSE Rejected(TypeError("reduce"))

(***************************************************************************)
(* The transport: a chain of pages in the manner of the test suite's       *)
(* FakeApi.  Page 1 answers the endpoint URLs, page k >= 2 answers         *)
(* PageUrl(k), any other URL is answered 404 Not Found.                    *)
(***************************************************************************)
PageUrl(page) ==
    "https://api.github.com/repositories/1/releases?page=" \o ToString(page)

\* The FakeApi releases: two assets each, except that the second release of
\* a page has none and a third has one.
ReleaseAt(page, i) ==
    [tag_name |-> "v" \o ToString(page) \o "." \o ToString(i),
     assets |-> CASE i = 1 -> <<[download_count |-> 100 + 10 * (page - 1)],
                                [download_count |-> 200 + 10 * (page - 1)]>>
                  [] i = 2 -> <<>>
                  [] OTHER -> <<[download_count |-> i]>>]

ReleasesAt(page, n) == [i \in 1..n |-> ReleaseAt(page, i)]

RECURSIVE JoinEntries(_)
\* The entries separated by ", ".
JoinEntries(entries) ==
    IF entries = <<>> THEN <<>>
    ELSE IF Len(entries) = 1 THEN Head(entries)
    ELSE Head(entries) \o <<", ">> \o JoinEntries(Tail(entries))

\* FakeApi.getPaginatedReleases: the link header of `page` out of `lastPage`.
LinkHeader(page, lastPage) ==
    JoinEntries(
        (IF page >= 2 THEN <<LinkEntry(PageUrl(page - 1), "prev")>> ELSE <<>>)
        \o (IF page < lastPage
            THEN <<LinkEntry(PageUrl(page + 1), "next"),
                   LinkEntry(PageUrl(lastPage), "last")>>
            ELSE <<>>)
        \o (IF page >= 2 THEN <<LinkEntry(PageUrl(1), "first")>> ELSE <<>>))

Response(ok, hasLink, link, body) ==
    [kind |-> "response", ok |-> ok, hasLink |-> hasLink, link |-> link,
     body |-> body]

\* fetchMock.mockRejectOnce(error): the error object is told apart by the
\* page whose request it rejects.
NetworkError(page) == [name |-> "Error", message |-> "Network error", id |-> page]

Rejection(page) == [kind |-> "reject", reason |-> NetworkError(page)]

NotFound == Response(FALSE, FALSE, <<>>, JObject([message |-> "Not Found"]))

Messages == {"Not Found", "API rate limit exceeded"}

OkBodies(page) ==
    {JArray(ReleasesAt(page, n)) : n \in 0..MaxPerPage}
    \cup {JObject(ReleaseAt(page, 1)), JObject(ReleaseAt(page, 2)), InvalidBody}

ErrorBodies == {JObject([message |-> m]) : m \in Messages} \cup {InvalidBody}

\* A page that is followed by another one: a listing, or a body that does
\* not parse.
InnerPages(page) ==
    {Response(TRUE, TRUE, LinkHeader(page, page + 1), b) :
        b \in {JArray(ReleasesAt(page, n)) : n \in 0..MaxPerPage} \cup {InvalidBody}}

\* A page that ends the chain: a success with no link header, with a link
\* header without a next relation or with one to a page that does not
\* exist, a non-success status, or a rejected network call.
LastPages(page) ==
    {Response(TRUE, FALSE, <<>>, b) : b \in OkBodies(page)}
    \cup {Response(TRUE, TRUE, LinkHeader(page, page), b) : b \in OkBodies(page)}
    \cup {Response(TRUE, TRUE, LinkHeader(page, page + 1), b) : b \in OkBodies(page)}
    \cup {Response(FALSE, FALSE, <<>>, b) : b \in ErrorBodies}
    \cup {Response(FALSE, TRUE, LinkHeader(page, page + 1), b) : b \in ErrorBodies}
    \cup {Rejection(page)}

RECURSIVE Chains(_, _)
\* The chains of pages page..last.
Chains(page, last) ==
    IF page = last
    THEN {<<p>> : p \in LastPages(page)}
    ELSE {<<p>> \o rest : p \in InnerPages(page), rest \in Chains(page + 1, last)}

Servers == UNION {Chains(1, n) : n \in 1..MaxPages}

\* The chains whose pages hold one release each.
AuthServers ==
    {srv \in Servers :
        \A k \in 1..Len(srv) :
            srv[k].kind = "response" =>
                srv[k].body \in {JArray(ReleasesAt(k, 1)),
                                 JObject([message |-> "Not Found"])}}

Owners == {"foo"}
Repos == {"bar"}
Tags == {"v1.1.0"}
Tokens == {"", "secret"}
EnvTokens == {"", "envsecret"}

EndpointUrls ==
    {AllReleasesUrl(o, r) : o \in Owners, r \in Repos}
    \cup {LatestReleaseUrl(o, r) : o \in Owners, r \in Repos}
    \cup {ReleaseUrl(o, r, t) : o \in Owners, r \in Repos, t \in Tags}

\* The number of the page that answers `url`, 0 when there is none.
PageOf(srv, url) ==
    IF url \in EndpointUrls THEN 1
    ELSE IF \E k \in 2..Len(srv) : url = PageUrl(k)
         THEN CHOOSE k \in 2..Len(srv) : url = PageUrl(k)
         ELSE 0

\* What the transport answers to a GET of `url`.
Serve(srv, url) ==
    IF PageOf(srv, url) = 0 THEN NotFound ELSE srv[PageOf(srv, url)]

(***************************************************************************)
(* The initial state: a constructed GithubStats, no call made yet.         *)
(***************************************************************************)
\* An invocation slot no client method has been called in.
Idle == [op |-> "none", frames |-> <<>>, requests |-> <<>>, trace |-> <<>>,
         outcome |-> NoCall, awaited |-> NoCall, resumed |-> FALSE]

\* No command line interface: the library is used directly.
NoCli == [pc |-> "none"]

InitWith(servers, tokens, envTokens, sandboxes) ==
    /\ repoOwner \in Owners
    /\ repoName \in Repos
    /\ ctorToken \in tokens
    /\ ctorEnv \in envTokens
    /\ sandbox \in sandboxes
    /\ env = ctorEnv
    /\ token = ResolveToken(ctorToken, ctorEnv, sandbox)
    /\ server \in servers
    /\ again = FALSE
    /\ op = "none"
    /\ frames = <<>>
    /\ requests = <<>>
    /\ trace = <<>>
    /\ outcome = NoCall
    /\ awaited = NoCall
    /\ other = Idle
    /\ cli = NoCli

\* Node.js with no token and GITHUB_TOKEN unset, as in most of the test
\* suite, against every chain.
Init == InitWith(Servers, {""}, {""}, {FALSE})

\* Every way of constructing the client, against the chains of one-release
\* pages.
InitAuth == InitWith(AuthServers, Tokens, EnvTokens, BOOLEAN)

(***************************************************************************)
(* GithubStats.fetch up to `await fetch(url, ...)`.                        *)
(***************************************************************************)
Frame(url, pc, response, result) ==
    [url |-> url, pc |-> pc, response |-> response, result |-> result]

\* An activation that has thrown: its promise is rejected with `error`.
Thrown(frame, error) ==
    [url |-> frame.url, pc |-> "thrown", response |-> frame.response,
     result |-> frame.result, error |-> error]

NoResponse == [kind |-> "none"]

\* A variant of NewFrame whose result array is kept on the instance, so an
\* activation starts from what the other invocation has gathered.
NewFrameShared(url) ==
    Frame(url, "fetch", NoResponse,
          IF other.frames = <<>> THEN <<>>
          ELSE other.frames[Len(other.frames)].result)

\* A new activation: result = [], the headers are built, the request is sent.
NewFrame(url) == Frame(url, "fetch", NoResponse, <<>>)

Top == frames[Len(frames)]

instance == <<repoOwner, repoName, token, ctorToken, ctorEnv, sandbox, server>>

\* A client method is called: it builds its URL and calls this.fetch(url).
Call(method, url) ==
    /\ outcome.state # "pending"
    /\ again' = (outcome.state # "none")
    /\ op' = method
    /\ frames' = <<NewFrame(url)>>
    /\ requests' = <<RequestOf(url, token, sandbox)>>
    /\ trace' = <<<<"request", 1>>>>
    /\ outcome' = Pending
    /\ awaited' = (IF InnerMethod(method) = method THEN NoCall ELSE Pending)
    /\ UNCHANGED <<instance, other, cli, env>>

getAllReleases == Call("getAllReleases", AllReleasesUrl(repoOwner, repoName))

getRelease(tag) == Call("getRelease", ReleaseUrl(repoOwner, repoName, tag))

getLatestRelease == Call("getLatestRelease", LatestReleaseUrl(repoOwner, repoName))

getTotalDownloads == Call("getTotalDownloads", AllReleasesUrl(repoOwner, repoName))

getReleaseDownloads(tag) ==
    Call("getReleaseDownloads", ReleaseUrl(repoOwner, repoName, tag))

getLatestReleaseDownloads ==
    Call("getLatestReleaseDownloads", LatestReleaseUrl(repoOwner, repoName))

\* A variant of Throw that catches the exception: the activation returns
\* no records.
ThrowCaught(error) ==
    frames' = [frames EXCEPT ![Len(frames)] =
                  Frame(Top.url, "returned", Top.response, <<>>)]

\* An exception thrown in the innermost activation rejects the promise of
\* that activation.  The activation that awaits it has not resumed yet.
Throw(error) ==
    frames' = [frames EXCEPT ![Len(frames)] = Thrown(Top, error)]

(***************************************************************************)
(* GithubStats.fetch from the answer of the transport on.                  *)
(***************************************************************************)
\* A variant of FetchResponse that reads the body of a page before it
\* follows the next relation.
FetchResponseBodyFirst ==
    /\ frames # <<>>
    /\ Top.pc = "fetch"
    /\ Serve(server, Top.url).kind = "response"
    /\ LET d == Len(frames)
           response == Serve(server, Top.url)
           match == MatchNext(response.link)
       IN  IF ~response.ok
           THEN /\ frames' = [frames EXCEPT ![d] =
                                 Frame(Top.url, "errorJson", response, Top.result)]
                /\ trace' = Append(trace, <<"response", d>>)
                /\ UNCHANGED requests
           ELSE IF response.hasLink /\ match.matched
           THEN /\ Len(requests) < MaxRequests
                /\ frames' = Append([frames EXCEPT ![d] =
                                 Frame(Top.url, "tail", response, Top.result)],
                                    NewFrame(match.url))
                /\ requests' = Append(requests,
                                      RequestOf(match.url, token, sandbox))
                /\ trace' = trace \o <<<<"response", d>>, <<"body", d>>,
                                       <<"request", d + 1>>>>
           ELSE /\ frames' = [frames EXCEPT ![d] =
                                 Frame(Top.url, "json", response, Top.result)]
                /\ trace' = Append(trace, <<"response", d>>)
                /\ UNCHANGED requests
    /\ UNCHANGED <<instance, other, cli, env, again, op, outcome, awaited>>

\* A variant of FetchResponse that follows the next relation of the first
\* two pages only.
FetchResponseCapped ==
    /\ frames # <<>>
    /\ Top.pc = "fetch"
    /\ Serve(server, Top.url).kind = "response"
    /\ LET d == Len(frames)
           response == Serve(server, Top.url)
           match == MatchNext(response.link)
       IN  IF ~response.ok
           THEN /\ frames' = [frames EXCEPT ![d] =
                                 Frame(Top.url, "errorJson", response, Top.result)]
                /\ trace' = Append(trace, <<"response", d>>)
                /\ UNCHANGED requests
           ELSE IF response.hasLink /\ match.matched /\ d < 2
           THEN /\ Len(requests) < MaxRequests
                /\ frames' = Append([frames EXCEPT ![d] =
                                 Frame(Top.url, "tail", response, Top.result)],
                                    NewFrame(match.url))
                /\ requests' = Append(requests,
                                      RequestOf(match.url, token, sandbox))
                /\ trace' = trace \o <<<<"response", d>>, <<"request", d + 1>>>>
           ELSE /\ frames' = [frames EXCEPT ![d] =
                                 Frame(Top.url, "json", response, Top.result)]
                /\ trace' = Append(trace, <<"response", d>>)
                /\ UNCHANGED requests
    /\ UNCHANGED <<instance, other, cli, env, again, op, outcome, awaited>>

\* `await fetch(url, ...)` resolves with a response.  A non-success status
\* starts the read of the error body; a link header with a next relation
\* calls this.fetch(match[1]), which sends the next request at once; else
\* the read of the body starts.
FetchResponse ==
    /\ frames # <<>>
    /\ Top.pc = "fetch"
    /\ Serve(server, Top.url).kind = "response"
    /\ LET d == Len(frames)
           response == Serve(server, Top.url)
           match == MatchNext(response.link)
       IN  IF ~response.ok
           THEN /\ frames' = [frames EXCEPT ![d] =
                                 Frame(Top.url, "errorJson", response, Top.result)]
                /\ trace' = Append(trace, <<"response", d>>)
                /\ UNCHANGED requests
           ELSE IF response.hasLink /\ match.matched
           THEN /\ Len(requests) < MaxRequests
                /\ frames' = Append([frames EXCEPT ![d] =
                                 Frame(Top.url, "tail", response, Top.result)],
                                    NewFrame(match.url))
                /\ requests' = Append(requests,
                                      RequestOf(match.url, token, sandbox))
                /\ trace' = trace \o <<<<"response", d>>, <<"request", d + 1>>>>
           ELSE /\ frames' = [frames EXCEPT ![d] =
                                 Frame(Top.url, "json", response, Top.result)]
                /\ trace' = Append(trace, <<"response", d>>)
                /\ UNCHANGED requests
    /\ UNCHANGED <<instance, other, cli, env, again, op, outcome, awaited>>

\* A variant of FetchReject that wraps the rejection in a GithubError.
FetchRejectWrapped ==
    /\ frames # <<>>
    /\ Top.pc = "fetch"
    /\ Serve(server, Top.url).kind = "reject"
    /\ Throw(GithubError(Serve(server, Top.url).reason.message))
    /\ trace' = Append(trace, <<"reject", Len(frames)>>)
    /\ UNCHANGED <<instance, other, cli, env, again, op, requests, outcome,
                   awaited>>

\* `await fetch(url, ...)` rejects: the rejection value is thrown.
FetchReject ==
    /\ frames # <<>>
    /\ Top.pc = "fetch"
    /\ Serve(server, Top.url).kind = "reject"
    /\ Throw(Serve(server, Top.url).reason)
    /\ trace' = Append(trace, <<"reject", Len(frames)>>)
    /\ UNCHANGED <<instance, other, cli, env, again, op, requests, outcome,
                   awaited>>

\* throw new GithubError((await response.json()).message)
ErrorBody ==
    /\ frames # <<>>
    /\ Top.pc = "errorJson"
    /\ LET json == Json(Top.response.body)
       IN  IF json.thrown
           THEN Throw(json.error)
           ELSE Throw(GithubError(MessageOf(json.value)))
    /\ trace' = Append(trace, <<"errorBody", Len(frames)>>)
    /\ UNCHANGED <<instance, other, cli, env, again, op, requests, outcome,
                   awaited>>

\* result.unshift(...[await response.json()].flat()); return result.
\* The promise of the activation is fulfilled with the array; the caller has
\* not resumed yet.
PageBody ==
    /\ frames # <<>>
    /\ Top.pc = "json"
    /\ LET d == Len(frames)
           json == Json(Top.response.body)
       IN  IF json.thrown
           THEN Throw(json.error)
           ELSE frames' = [frames EXCEPT ![d] =
                              Frame(Top.url, "returned", Top.response,
                                    Unshift(Top.result, Flat(json.value)))]
    /\ trace' = Append(trace, <<"body", Len(frames)>>)
    /\ UNCHANGED <<instance, other, cli, env, again, op, requests, outcome,
                   awaited>>

\* `await this.fetch(match[1])` at line 167 resumes in the activation below
\* the finished one: it pushes the returned records and starts the read of
\* its own body, or it throws what the finished activation threw.
ResumeTail ==
    /\ Len(frames) >= 2
    /\ Top.pc \in {"returned", "thrown"}
    /\ LET d == Len(frames)
           parent == frames[d - 1]
       IN  frames' = [SubSeq(frames, 1, d - 1) EXCEPT ![d - 1] =
                         IF Top.pc = "thrown"
                         THEN Thrown(parent, Top.error)
                         ELSE Frame(parent.url, "json", parent.response,
                                    Push(parent.result, Top.result))]
    /\ UNCHANGED <<instance, other, cli, env, again, op, requests, trace,
                   outcome, awaited>>

\* `await this.fetch(url)` resumes in getAllReleases, getRelease or
\* getLatestRelease, which returns or throws: its promise settles.  It is the
\* promise of the caller, or the one another client method awaits.
ResumeMethod ==
    /\ Len(frames) = 1
    /\ Top.pc \in {"returned", "thrown"}
    /\ frames' = <<>>
    /\ LET settled == IF Top.pc = "thrown" THEN Rejected(Top.error)
                      ELSE Return(InnerMethod(op), Top.result)
       IN  IF awaited.state = "pending"
           THEN awaited' = settled /\ UNCHANGED outcome
           ELSE outcome' = settled /\ UNCHANGED awaited
    /\ UNCHANGED <<instance, other, cli, env, again, op, requests, trace>>

\* `await this.getAllReleases()` (getRelease, getLatestRelease) resumes in
\* getTotalDownloads (getReleaseDownloads, getLatestReleaseDownloads), which
\* adds up the download counts or throws.
ResumeOuter ==
    /\ outcome.state = "pending"
    /\ awaited.state \in {"fulfilled", "rejected"}
    /\ outcome' = (IF awaited.state = "rejected" THEN awaited
                   ELSE Reduce(op, awaited.value))
    /\ awaited' = NoCall
    /\ UNCHANGED <<instance, other, cli, env, again, op, frames, requests,
                   trace>>

\* The environment variable GITHUB_TOKEN is set or cleared.  Nothing reads
\* it while a call is in progress, so the change is taken between calls.
SetEnv(value) ==
    /\ outcome.state # "pending"
    /\ value # env
    /\ env' = value
    /\ UNCHANGED <<instance, other, cli, again, op, frames, requests, trace,
                   outcome, awaited>>

Next ==
    \/ getAllReleases
    \/ \E tag \in Tags : getRelease(tag)
    \/ getLatestRelease
    \/ getTotalDownloads
    \/ \E tag \in Tags : getReleaseDownloads(tag)
    \/ getLatestReleaseDownloads
    \/ FetchResponse
    \/ FetchReject
    \/ ErrorBody
    \/ PageBody
    \/ ResumeTail
    \/ ResumeMethod
    \/ ResumeOuter

\* The same, in an environment whose GITHUB_TOKEN changes.
NextAuth ==
    \/ Next
    \/ \E value \in EnvTokens : SetEnv(value)

Spec == Init /\ [][Next]_vars

SpecAuth == InitAuth /\ [][NextAuth]_vars

(***************************************************************************)
(* Two invocations on one instance.  Every local of GithubStats.fetch      *)
(* (result, headers, response, match) lives in its activation, so an       *)
(* invocation is its own op, frames, requests, trace and outcome.  Between *)
(* two actions every activation is suspended at an await, and the event    *)
(* loop may resume either invocation: Switch turns to the other one.       *)
(***************************************************************************)
Switch ==
    /\ other' = [op |-> op, frames |-> frames, requests |-> requests,
                 trace |-> trace, outcome |-> outcome, awaited |-> awaited,
                 resumed |-> \/ other.resumed
                             \/ /\ outcome.state = "pending"
                                /\ other.outcome.state = "pending"]
    /\ op' = other.op
    /\ frames' = other.frames
    /\ requests' = other.requests
    /\ trace' = other.trace
    /\ outcome' = other.outcome
    /\ awaited' = other.awaited
    /\ UNCHANGED <<instance, cli, env, again>>

\* The chains of pages of one release each whose last page has no link
\* header and holds a release, does not parse, is not found or is not
\* answered.
ConcServers ==
    {srv \in Servers :
        LET n == Len(srv)
        IN  /\ \A k \in 1..(n - 1) : srv[k].body = JArray(ReleasesAt(k, 1))
            /\ srv[n] \in {Response(TRUE, FALSE, <<>>, JArray(ReleasesAt(n, 1))),
                            Response(TRUE, FALSE, <<>>, InvalidBody),
                            NotFound, Rejection(n)}}

InitConc == InitWith(ConcServers, {""}, {""}, {FALSE})

NextConc ==
    \/ Next
    \/ Switch

SpecConc == InitConc /\ [][NextConc]_vars

(***************************************************************************)
(* A service whose next relations never end, and an event loop that        *)
(* resumes every activation whose awaited promise has settled: the         *)
(* transport answers every request and every body read comes to an end.    *)
(***************************************************************************)
\* A page whose next relation leads back to page `target`.
LoopPage(page, target) ==
    Response(TRUE, TRUE,
             JoinEntries(<<LinkEntry(PageUrl(page - 1), "prev"),
                           LinkEntry(PageUrl(target), "next"),
                           LinkEntry(PageUrl(1), "first")>>),
             JArray(ReleasesAt(page, 1)))

RECURSIVE LoopChains(_, _)
\* The chains of pages page..last whose last page leads back to an earlier
\* page or to itself.
LoopChains(page, last) ==
    IF page = last
    THEN {<<LoopPage(page, target)>> : target \in 2..page}
    ELSE {<<Response(TRUE, TRUE, LinkHeader(page, page + 1),
                     JArray(ReleasesAt(page, 1)))>> \o rest :
             rest \in LoopChains(page + 1, last)}

LoopServers == UNION {LoopChains(1, n) : n \in 2..MaxPages}

InitLive == InitWith(AuthServers \cup LoopServers, {""}, {""}, {FALSE})

SpecLive ==
    /\ InitLive
    /\ [][Next]_vars
    /\ WF_vars(FetchResponse)
    /\ WF_vars(FetchReject)
    /\ WF_vars(ErrorBody)
    /\ WF_vars(PageBody)
    /\ WF_vars(ResumeTail)
    /\ WF_vars(ResumeMethod)
    /\ WF_vars(ResumeOuter)

(***************************************************************************)
(* Link headers that list their relations in any order.                    *)
(***************************************************************************)
\* The relations of a link header and, for the first page of a listing of
\* MaxPages pages, the page each of them leads to.
Rels == {"prev", "next", "last", "first"}

RelTarget(rel) ==
    CASE rel = "next" -> 2
      [] rel = "last" -> MaxPages
      [] OTHER -> 1

\* The headers that list some of the relations, each once, in some order.
ArrangedHeaders ==
    {JoinEntries([i \in 1..Len(rels) |->
                     LinkEntry(PageUrl(RelTarget(rels[i])), rels[i])]) :
        rels \in UNION {{s \in [1..n -> Rels] :
                            \A i \in 1..n : \A j \in 1..n : s[i] = s[j] => i = j} :
                        n \in 1..Cardinality(Rels)}}

\* A listing of MaxPages pages of one release each whose first page has
\* such a header.
LinkServers ==
    {<<Response(TRUE, TRUE, header, JArray(ReleasesAt(1, 1)))>>
     \o [k \in 1..(MaxPages - 1) |->
            Response(TRUE, TRUE, LinkHeader(k + 1, MaxPages),
                     JArray(ReleasesAt(k + 1, 1)))] :
        header \in ArrangedHeaders}

InitLinks == InitWith(LinkServers \cup AuthServers, {""}, {""}, {FALSE})

SpecLinks == InitLinks /\ [][Next]_vars

(***************************************************************************)
(* The command line interface (src/bin/ghstats-cli.ts): the constructor    *)
(* reads the arguments, run() asks for a missing owner or name, checks the *)
(* options and starts one query on a new GithubStats; the callbacks       *)
(* registered on the promise of the query print its value or its failure.  *)
(* An argument is the sequence of its characters.                          *)
(***************************************************************************)
HelpFlags == {"-h", "--help", "-?"}
DetailedFlags == {"-d", "--detailed"}
LatestFlags == {"-l", "--latest"}
QuietFlags == {"-q", "--quiet"}

\* The arguments tried: each at most once on a command line.
ArgWords ==
    {<<"f", "o", "o">>, <<"b", "a", "r">>,
     <<"f", "o", "o", "/", "b", "a", "r">>, <<"f", "o", "o", "/">>,
     <<"/", "b", "a", "r">>, <<"a", "/", "b", "/", "c">>,
     <<"v", "1", ".", "1", ".", "0">>,
     <<"-", "d">>, <<"-", "-", "l", "a", "t", "e", "s", "t">>, <<"-", "q">>,
     <<"-", "h">>}

CliArgs ==
    UNION {{args \in [1..n -> ArgWords] :
               \A i \in 1..n : \A j \in 1..n : args[i] = args[j] => i = j} :
           n \in 0..MaxArgs}

\* What the user types at a prompt.
Answers == {"foo", "bar", ""}

\* The string of the characters `chars`.
Text(chars) == ConcatTokens(chars)

RECURSIVE Split(_)
\* arg.split('/'): the strings between the slashes.
Split(chars) ==
    IF \E k \in 1..Len(chars) : chars[k] = "/"
    THEN LET k == CHOOSE a \in 1..Len(chars) :
                      /\ chars[a] = "/"
                      /\ \A b \in 1..(a - 1) : chars[b] # "/"
         IN  <<Text(SubSeq(chars, 1, k - 1))>>
             \o Split(SubSeq(chars, k + 1, Len(chars)))
    ELSE <<Text(chars)>>

\* The fields of a GithubStatsCli; of the process, what it has written and
\* its exit code; the readline interface of getUserInput; of the promise of
\* the query, which callback is due.
NewCli ==
    [pc |-> "constructing",
     repoOwner |-> "", repoName |-> "", releaseTag |-> "",
     detailed |-> FALSE, latest |-> FALSE, quiet |-> FALSE,
     stdout |-> <<>>, stderr |-> <<>>, exitCode |-> 0, queries |-> <<>>,
     rl |-> "none", reaction |-> "none", error |-> Undefined]

\* printHelp: the help text (its first line stands for it) and process.exit(0).
printHelp(c) ==
    [c EXCEPT !.stdout = Append(@, "GitHub Release Stats\n\nUsage:"),
              !.exitCode = 0, !.pc = "exited"]

\* The body of args.forEach.  [this.repoOwner, this.repoName] = parts takes
\* the first two parts; a missing second part is undefined, which is falsy
\* like '' and is replaced before it is used.
TakeArg(c, arg) ==
    IF Text(arg) \in HelpFlags THEN printHelp(c)
    ELSE IF Text(arg) \in DetailedFlags THEN [c EXCEPT !.detailed = TRUE]
    ELSE IF Text(arg) \in LatestFlags THEN [c EXCEPT !.latest = TRUE]
    ELSE IF Text(arg) \in QuietFlags THEN [c EXCEPT !.quiet = TRUE]
    ELSE IF c.repoOwner = ""
    THEN [c EXCEPT !.repoOwner = Split(arg)[1],
                   !.repoName = IF Len(Split(arg)) >= 2 THEN Split(arg)[2]
                                ELSE ""]
    ELSE IF c.repoName = "" THEN [c EXCEPT !.repoName = Text(arg)]
    ELSE IF c.releaseTag = "" THEN [c EXCEPT !.releaseTag = Text(arg)]
    ELSE c

RECURSIVE ParseArgs(_, _)
\* args.forEach(...): process.exit ends it.
ParseArgs(c, args) ==
    IF args = <<>> \/ c.pc = "exited" THEN c
    ELSE ParseArgs(TakeArg(c, Head(args)), Tail(args))

\* new GithubStatsCli(args)
GithubStatsCli(args) ==
    LET c == ParseArgs(NewCli, args)
    IN  IF c.pc = "exited" THEN c ELSE [c EXCEPT !.pc = "constructed"]

\* printMessage: nothing in quiet mode.
printMessage(c, message) ==
    IF c.quiet THEN c ELSE [c EXCEPT !.stdout = Append(@, message)]

\* A variant of Conflict that checks the tag against the latest option only.
ConflictTagOnly(c) ==
    IF c.releaseTag # "" /\ c.latest
    THEN "Error: You must specify either the \"tag\" or \"latest\" option, not both."
    ELSE ""

\* The checks of run(): the error to report, '' when there is none.
Conflict(c) ==
    IF c.releaseTag # "" /\ c.latest
    THEN "Error: You must specify either the \"tag\" or \"latest\" option, not both."
    ELSE IF c.detailed /\ c.quiet
    THEN "Error: You must specify either the \"detailed\" or \"quiet\" option, not both."
    ELSE ""

\* The else branch of run(): the message printed, the client method called
\* and the URL that method builds.
Query(c) ==
    LET repo == c.repoOwner \o "/" \o c.repoName
    IN  IF c.detailed /\ c.latest
        THEN [message |-> "Fetching " \o repo \o " latest release stats...\n",
              method |-> "getLatestRelease",
              url |-> LatestReleaseUrl(c.repoOwner, c.repoName)]
        ELSE IF c.detailed /\ c.releaseTag # ""
        THEN [message |-> "Fetching " \o repo \o " " \o c.releaseTag
                          \o " stats...\n",
              method |-> "getRelease",
              url |-> ReleaseUrl(c.repoOwner, c.repoName, c.releaseTag)]
        ELSE IF c.detailed
        THEN [message |-> "Fetching " \o repo \o " stats...\n",
              method |-> "getAllReleases",
              url |-> AllReleasesUrl(c.repoOwner, c.repoName)]
        ELSE IF c.latest
        THEN [message |-> "Fetching " \o repo
                          \o " latest release download count...",
              method |-> "getLatestReleaseDownloads",
              url |-> LatestReleaseUrl(c.repoOwner, c.repoName)]
        ELSE IF c.releaseTag # ""
        THEN [message |-> "Fetching " \o repo \o " " \o c.releaseTag
                          \o " download count...",
              method |-> "getReleaseDownloads",
              url |-> ReleaseUrl(c.repoOwner, c.repoName, c.releaseTag)]
        ELSE [message |-> "Fetching " \o repo \o " download count...",
              method |-> "getTotalDownloads",
              url |-> AllReleasesUrl(c.repoOwner, c.repoName)]

\* rl.question(prompt, resolve) on the readline interface of getUserInput,
\* which then awaits the answer.
Ask(c, pc, prompt) ==
    /\ cli' = [c EXCEPT !.pc = pc, !.rl = "open", !.stdout = Append(@, prompt)]
    /\ UNCHANGED <<instance, other, env, again, op, frames, requests, trace,
                   outcome, awaited>>

\* rl.close() and the return of getUserInput: run() still waits at
\* `await this.getUserInput()`.
Close(c) ==
    /\ cli' = [c EXCEPT !.rl = "closed"]
    /\ UNCHANGED <<instance, other, env, again, op, frames, requests, trace,
                   outcome, awaited>>

\* run() from the checks on: an error and exit code 1, or a new GithubStats
\* and one of its methods, which runs up to its first await.
Dispatch(c) ==
    IF Conflict(c) # ""
    THEN /\ cli' = [c EXCEPT !.stderr = Append(@, Conflict(c)),
                             !.exitCode = 1, !.pc = "done"]
         /\ UNCHANGED <<instance, other, env, again, op, frames, requests,
                        trace, outcome, awaited>>
    ELSE /\ cli' = [printMessage(c, Query(c).message) EXCEPT
                        !.queries = Append(@, Query(c).method), !.pc = "done",
                        !.reaction = "then"]
         /\ repoOwner' = c.repoOwner
         /\ repoName' = c.repoName
         /\ ctorToken' = ""
         /\ ctorEnv' = env
         /\ token' = ResolveToken("", env, sandbox)
         /\ op' = Query(c).method
         /\ frames' = <<NewFrame(Query(c).url)>>
         /\ requests' = <<RequestOf(Query(c).url, token', sandbox)>>
         /\ trace' = <<<<"request", 1>>>>
         /\ outcome' = Pending
         /\ awaited' = (IF InnerMethod(Query(c).method) = Query(c).method
                        THEN NoCall ELSE Pending)
         /\ UNCHANGED <<sandbox, server, other, env, again>>

\* cli.run() up to its first await.
run ==
    /\ cli.pc = "constructed"
    /\ LET c == printMessage(cli, "GitHub Release Stats")
       IN  IF c.repoOwner = ""
           THEN Ask(c, "askOwner", "Enter the GitHub repository owner: ")
           ELSE IF c.repoName = ""
           THEN Ask(c, "askName", "Enter the GitHub repository name: ")
           ELSE Dispatch(c)

\* getUserInput resumes with the owner typed in: it asks for the name or
\* closes the interface and returns.
answerOwner(answer) ==
    /\ cli.pc = "askOwner"
    /\ cli.rl = "open"
    /\ LET c == [cli EXCEPT !.repoOwner = answer]
       IN  IF c.repoName = ""
           THEN Ask(c, "askName", "Enter the GitHub repository name: ")
           ELSE Close(c)

\* getUserInput resumes with the name typed in: it closes the interface and
\* returns.
answerName(answer) ==
    /\ cli.pc = "askName"
    /\ cli.rl = "open"
    /\ Close([cli EXCEPT !.repoName = answer])

\* run() resumes after `await this.getUserInput()` and goes on to the
\* checks.
resumeRun ==
    /\ cli.pc \in {"askOwner", "askName"}
    /\ cli.rl = "closed"
    /\ Dispatch(cli)

\* The property `field` of an object in a template string.
Field(object, field) ==
    IF field \in DOMAIN object THEN object[field] ELSE "undefined"

RECURSIVE AssetLines(_)
\* The body of release.assets.forEach in printRelease.
AssetLines(assets) ==
    IF assets = <<>> THEN <<>>
    ELSE <<"  " \o Field(Head(assets), "name") \o " - "
           \o ToString(Head(assets).download_count) \o " download(s)">>
         \o AssetLines(Tail(assets))

\* printRelease: the lines written and whether it throws.
printRelease(release) ==
    IF release = Undefined
    THEN [lines |-> <<>>, thrown |-> TRUE, error |-> TypeError("name")]
    ELSE LET head ==
                 (IF "name" \in DOMAIN release /\ release.name # ""
                  THEN <<"Name: " \o release.name>> ELSE <<>>)
                 \o <<"Tag: " \o Field(release, "tag_name"),
                      "URL: " \o Field(release, "url"),
                      "Published at: " \o Field(release, "published_at"),
                      "Assets:">>
         IN  IF ~HasAssets(release)
             THEN [lines |-> head, thrown |-> TRUE,
                   error |-> TypeError("forEach")]
             ELSE [lines |-> head \o AssetLines(release.assets)
                             \o <<"    "
                                  \o ToString(SumAssets(release.assets, 0))
                                  \o " total downloads">>,
                   thrown |-> FALSE]

RECURSIVE printAll(_, _)
\* The callback of getAllReleases: every release, an empty line after each,
\* and the total.
printAll(releases, total) ==
    IF releases = <<>>
    THEN [lines |-> <<ToString(total) \o " total downloads">>,
          thrown |-> FALSE]
    ELSE LET first == printRelease(Head(releases))
         IN  IF first.thrown THEN first
             ELSE LET rest == printAll(Tail(releases),
                                       total + SumAssets(Head(releases).assets, 0))
                  IN  [rest EXCEPT !.lines = first.lines \o <<"">> \o @]

\* The callback given to then() for the query `method`, applied to `value`.
OnFulfilled(method, value) ==
    IF method \in {"getLatestRelease", "getRelease"} THEN printRelease(value)
    ELSE IF method = "getAllReleases" THEN printAll(value, 0)
    ELSE [lines |-> <<ToString(value)>>, thrown |-> FALSE]

\* The promise of the query has settled: the callback given to then() runs
\* on its value; a failure of the query or of the callback goes on to the
\* callback given to catch().
ThenCallback ==
    /\ cli.pc = "done"
    /\ cli.reaction = "then"
    /\ outcome.state \in {"fulfilled", "rejected"}
    /\ cli' = IF outcome.state = "rejected"
              THEN [cli EXCEPT !.reaction = "catch", !.error = outcome.error]
              ELSE LET out == OnFulfilled(cli.queries[1], outcome.value)
                   IN  IF out.thrown
                       THEN [cli EXCEPT !.stdout = @ \o out.lines,
                                        !.reaction = "catch",
                                        !.error = out.error]
                       ELSE [cli EXCEPT !.stdout = @ \o out.lines,
                                        !.reaction = "settled"]
    /\ UNCHANGED <<instance, other, env, again, op, frames, requests, trace,
                   outcome, awaited>>

\* printError, the callback given to catch().
printError ==
    /\ cli.pc = "done"
    /\ cli.reaction = "catch"
    /\ cli' = [cli EXCEPT
                  !.stderr = Append(@, cli.error.name \o ": " \o cli.error.message),
                  !.reaction = "settled"]
    /\ UNCHANGED <<instance, other, env, again, op, frames, requests, trace,
                   outcome, awaited>>

\* A listing of two pages of one release each, a listing of no release,
\* and a network that fails.
CliServers ==
    {<<Response(TRUE, TRUE, LinkHeader(1, 2), JArray(ReleasesAt(1, 1))),
       Response(TRUE, TRUE, LinkHeader(2, 2), JArray(ReleasesAt(2, 1)))>>,
     <<Response(TRUE, FALSE, <<>>, JArray(<<>>))>>,
     <<Rejection(1)>>}

\* The process after `new GithubStatsCli(process.argv.slice(2))`: there is
\* no GithubStats yet.
InitCli ==
    /\ cli \in {GithubStatsCli(args) : args \in CliArgs}
    /\ repoOwner = ""
    /\ repoName = ""
    /\ token = ""
    /\ ctorToken = ""
    /\ ctorEnv = ""
    /\ env = ""
    /\ sandbox = FALSE
    /\ server \in CliServers
    /\ again = FALSE
    /\ op = "none"
    /\ frames = <<>>
    /\ requests = <<>>
    /\ trace = <<>>
    /\ outcome = NoCall
    /\ awaited = NoCall
    /\ other = Idle

NextCli ==
    \/ run
    \/ \E answer \in Answers : answerOwner(answer)
    \/ \E answer \in Answers : answerName(answer)
    \/ resumeRun
    \/ FetchResponse
    \/ FetchReject
    \/ ErrorBody
    \/ PageBody
    \/ ResumeTail
    \/ ResumeMethod
    \/ ResumeOuter
    \/ ThenCallback
    \/ printError

SpecCli == InitCli /\ [][NextCli]_vars

(***************************************************************************)
(* The listing as the service lays it out, read off the served pages       *)
(* without running the client.                                             *)
(***************************************************************************)
\* The URL of the entry marked rel="next": the token before its closing.
NextRel(link) ==
    IF \E j \in 2..Len(link) : link[j] = ">; rel=\"next\""
    THEN link[(CHOOSE j \in 2..Len(link) : link[j] = ">; rel=\"next\"") - 1]
    ELSE "none"

Advertises(page) ==
    /\ page.kind = "response"
    /\ page.ok
    /\ page.hasLink
    /\ NextRel(page.link) # "none"

RECURSIVE Walk(_, _, _)
\* The pages reached from `url` by following next relations of successes.
Walk(srv, url, fuel) ==
    LET page == Serve(srv, url)
    IN  IF fuel > 0 /\ Advertises(page)
        THEN <<page>> \o Walk(srv, NextRel(page.link), fuel - 1)
        ELSE <<page>>

StartUrl == "https://api.github.com/repos/foo/bar/releases?per_page=100"

Listing == Walk(server, StartUrl, MaxPages + 1)

\* The records of one page, in the order of its body.
Records(page) ==
    IF page.body.kind = "array" THEN page.body.items
    ELSE IF page.body.kind = "object" THEN <<page.body.value>>
    ELSE <<>>

Succeeds(page) ==
    page.kind = "response" /\ page.ok /\ page.body.kind # "invalid"

\* Every page of the listing is a success whose body parses.
SoundPages(pages) == \A k \in 1..Len(pages) : Succeeds(pages[k])

RECURSIVE Before(_, _)
\* The number of records on the pages before page k.
Before(pages, k) ==
    IF k <= 1 THEN 0 ELSE Before(pages, k - 1) + Len(Records(pages[k - 1]))

Settled == outcome.state \in {"fulfilled", "rejected"}

\* C1: a getAllReleases over a listing of N sound pages resolves with
\* page 1 ++ ... ++ page N: record i of page k sits at position
\* Before(k) + i, so earlier pages come first and the order inside a page is
\* kept, and the length is the sum of the page sizes.
C1_Concatenation ==
    (op = "getAllReleases" /\ Settled) =>
        LET pages == Listing
        IN  SoundPages(pages) =>
                /\ outcome.state = "fulfilled"
                /\ Len(outcome.value) = Before(pages, Len(pages) + 1)
                /\ \A k \in 1..Len(pages) :
                       \A i \in 1..Len(Records(pages[k])) :
                           outcome.value[Before(pages, k) + i] = Records(pages[k])[i]

C1_Witness ==
    /\ op = "getAllReleases"
    /\ outcome.state = "fulfilled"
    /\ Len(Listing) = 3
    /\ Len(Records(Listing[1])) = 2
    /\ Len(Records(Listing[2])) = 1
    /\ Len(Records(Listing[3])) = 2
    /\ Len(outcome.value) = 5

\* C2: an invocation of getAllReleases over a listing of N sound pages has
\* at every moment issued a prefix of the N requests, the first to the
\* endpoint URL and request k + 1 to the next relation of response k, none
\* twice, and has issued exactly N of them when it resolves; this holds of
\* the second invocation as of the first.
C2_OneRequestPerPage ==
    op = "getAllReleases" =>
        LET pages == Listing
        IN  SoundPages(pages) =>
                /\ Len(requests) <= Len(pages)
                /\ Settled => Len(requests) = Len(pages)
                /\ \A i \in 1..Len(requests) :
                       /\ i = 1 => requests[i].url = StartUrl
                       /\ i > 1 => requests[i].url = NextRel(pages[i - 1].link)
                       /\ \A j \in 1..Len(requests) :
                              j # i => requests[j].url # requests[i].url

C2_Witness ==
    /\ op = "getAllReleases"
    /\ again
    /\ outcome.state = "fulfilled"
    /\ Len(Listing) = 3
    /\ Len(requests) = 3

\* The failure a page raises.
FailureOf(page) ==
    IF page.kind = "reject" THEN page.reason
    ELSE IF page.body.kind = "invalid" THEN SyntaxError
    ELSE [name |-> "GithubError", message |-> page.body.value.message]

Event(p) == trace[p]

\* C3 as claimed: every request for a page after the first comes after the
\* body read of the page before it.
C3_BodyReadBeforeNextRequest ==
    \A p \in 1..Len(trace) :
        (Event(p)[1] = "request" /\ Event(p)[2] >= 2) =>
            \E q \in 1..(p - 1) : Event(q) = <<"body", Event(p)[2] - 1>>

\* C3, amended: the request for page k + 1 is issued only after the response
\* of page k (status and headers) has arrived, and every activation below
\* the innermost one waits for its successor, so at most one request is
\* outstanding; the body of page k is still unread then, and is read only
\* after the body of page k + 1 has been read.
C3_SequentialBodiesLast ==
    /\ \A p \in 1..Len(trace) :
           (Event(p)[1] = "request" /\ Event(p)[2] >= 2) =>
               \E q \in 1..(p - 1) : Event(q) = <<"response", Event(p)[2] - 1>>
    /\ \A d \in 1..(Len(frames) - 1) : frames[d].pc = "tail"
    /\ \A p \in 1..Len(trace) :
           (/\ Event(p)[1] = "body"
            /\ \E q \in 1..Len(trace) : Event(q) = <<"request", Event(p)[2] + 1>>)
           => \E q \in 1..(p - 1) : Event(q) = <<"body", Event(p)[2] + 1>>

C3_Witness ==
    trace = <<<<"request", 1>>, <<"response", 1>>,
              <<"request", 2>>, <<"response", 2>>,
              <<"request", 3>>, <<"response", 3>>,
              <<"body", 3>>, <<"body", 2>>, <<"body", 1>>>>

\* C4: when the listing ends at page k with a non-success status and a
\* body {message: m}, the operation rejects with a GithubError of message
\* m, and no more than k requests are ever issued, exactly k once it has
\* rejected.
C4_GithubError ==
    outcome.state # "none" =>
        LET pages == Listing
            k == Len(pages)
            last == pages[k]
        IN  (last.kind = "response" /\ ~last.ok /\ last.body.kind = "object") =>
                /\ Len(requests) <= k
                /\ Settled =>
                       /\ outcome.state = "rejected"
                       /\ outcome.error.name = "GithubError"
                       /\ outcome.error.message = last.body.value.message
                       /\ Len(requests) = k

C4_Witness ==
    /\ outcome.state = "rejected"
    /\ outcome.error.name = "GithubError"
    /\ outcome.error.message = "API rate limit exceeded"
    /\ Len(requests) = 3
    /\ Listing[3].hasLink

\* C5 as claimed: a listing with a failing page rejects, and no request
\* for a page after a failing page is ever issued.
C5_NoRequestAfterFailingPage ==
    LET pages == Listing
    IN  /\ (Settled /\ ~SoundPages(pages)) => outcome.state = "rejected"
        /\ \A k \in 1..Len(pages) : ~Succeeds(pages[k]) => Len(requests) <= k

\* C5, amended: a listing with a failing page rejects, with the failure of
\* its last failing page, whatever the operation; no request is issued
\* after a page with a non-success status or a rejected call; a body that
\* does not parse on a page that advertises a next page is found only after
\* all the later pages have been requested and have succeeded.
C5_Aborts ==
    LET pages == Listing
        failing == {k \in 1..Len(pages) : ~Succeeds(pages[k])}
    IN  /\ (Settled /\ failing # {}) =>
               /\ outcome.state = "rejected"
               /\ \E k \in failing :
                      /\ \A j \in failing : j <= k
                      /\ outcome.error = FailureOf(pages[k])
               /\ Len(requests) = Len(pages)
        /\ \A k \in 1..Len(pages) :
               (pages[k].kind = "reject" \/ ~pages[k].ok) => Len(requests) <= k

C5_Witness ==
    /\ op = "getTotalDownloads"
    /\ outcome.state = "rejected"
    /\ outcome.error = SyntaxError
    /\ Len(Listing) = 3
    /\ ~Succeeds(Listing[1]) /\ Succeeds(Listing[2]) /\ Succeeds(Listing[3])
    /\ Len(requests) = 3
    /\ trace[Len(trace)] = <<"body", 1>>

\* C6: when the transport rejects the call for page k, the operation,
\* whichever it is, rejects with that very value, and the request is not
\* repeated: k requests have been issued.
C6_SameRejection ==
    Settled =>
        LET pages == Listing
            k == Len(pages)
            last == pages[k]
        IN  last.kind = "reject" =>
                /\ outcome.state = "rejected"
                /\ outcome.error = last.reason
                /\ outcome.error.id = k
                /\ Len(requests) = k

C6_Witness ==
    /\ op = "getLatestReleaseDownloads"
    /\ outcome.state = "rejected"
    /\ Len(Listing) = 2
    /\ outcome.error = NetworkError(2)
    /\ Len(requests) = 2

\* The name of a header.
Name(header) == header[1]

\* C7: every request of the invocation, those to next relations included,
\* carries Authorization: token <credential> when the credential of the
\* instance is not empty and no Authorization header when it is, carries
\* User-Agent exactly outside a sandbox, carries nothing else, and carries
\* the same headers as the first request.
C7_Headers ==
    \A i \in 1..Len(requests) :
        LET headers == requests[i].headers
        IN  /\ token # "" => <<"Authorization", "token " \o token>> \in headers
            /\ \A h \in headers :
                   Name(h) = "Authorization" =>
                       token # "" /\ h = <<"Authorization", "token " \o token>>
            /\ <<"User-Agent", "github-release-stats">> \in headers <=> ~sandbox
            /\ \A h \in headers : Name(h) \in {"User-Agent", "Authorization"}
            /\ headers = requests[1].headers

C7_Witness ==
    /\ Len(requests) = 3
    /\ sandbox
    /\ token = "secret"
    /\ requests[3].headers = {<<"Authorization", "token secret">>}
    /\ requests[3].url = "https://api.github.com/repositories/1/releases?page=3"

\* C8: the credential is at all times the one resolved when the instance
\* was constructed, whatever GITHUB_TOKEN has become since: the token
\* argument when one was given, else the GITHUB_TOKEN of that moment
\* outside a sandbox, else empty; inside a sandbox it is the token argument.
C8_TokenResolvedOnce ==
    /\ ctorToken # "" => token = ctorToken
    /\ (ctorToken = "" /\ ~sandbox) => token = ctorEnv
    /\ (ctorToken = "" /\ sandbox) => token = ""
    /\ sandbox => token = ctorToken

C8_Witness ==
    /\ ctorToken = ""
    /\ ~sandbox
    /\ ctorEnv = "envsecret"
    /\ env = ""
    /\ token = "envsecret"
    /\ again
    /\ Len(requests) = 2
    /\ <<"Authorization", "token envsecret">> \in requests[2].headers

RECURSIVE AssetTotal(_, _)
\* The counters of the first n assets, added up.
AssetTotal(assets, n) ==
    IF n = 0 THEN 0 ELSE AssetTotal(assets, n - 1) + assets[n].download_count

RECURSIVE PageTotal(_, _)
\* The totals of the first n releases of a page, added up.
PageTotal(records, n) ==
    IF n = 0 THEN 0
    ELSE PageTotal(records, n - 1)
         + AssetTotal(records[n].assets, Len(records[n].assets))

RECURSIVE ListingTotal(_, _)
\* The totals of the first k pages, added up.
ListingTotal(pages, k) ==
    IF k = 0 THEN 0
    ELSE ListingTotal(pages, k - 1)
         + PageTotal(Records(pages[k]), Len(Records(pages[k])))

\* The listing of the example: two pages of one release each, with assets
\* 100, 200 and 110, 210.
Example620(pages) ==
    /\ Len(pages) = 2
    /\ SoundPages(pages)
    /\ Records(pages[1]) =
           <<[tag_name |-> "v1.1",
              assets |-> <<[download_count |-> 100], [download_count |-> 200]>>]>>
    /\ Records(pages[2]) =
           <<[tag_name |-> "v2.1",
              assets |-> <<[download_count |-> 110], [download_count |-> 210]>>]>>

\* C9: getTotalDownloads over a listing of sound pages resolves with the
\* sum of the per-page sums of the download counters, which is not
\* negative, is 0 when no page holds a record, and is 620 in the example.
C9_TotalDownloads ==
    (op = "getTotalDownloads" /\ Settled) =>
        LET pages == Listing
        IN  SoundPages(pages) =>
                /\ outcome.state = "fulfilled"
                /\ outcome.value = ListingTotal(pages, Len(pages))
                /\ outcome.value >= 0
                /\ (\A k \in 1..Len(pages) : Records(pages[k]) = <<>>) =>
                       outcome.value = 0
                /\ Example620(pages) => outcome.value = 620

C9_Witness ==
    /\ op = "getTotalDownloads"
    /\ outcome.state = "fulfilled"
    /\ Example620(Listing)
    /\ outcome.value = 620
    /\ Len(requests) = 2

\* C10: when the endpoint answers with one object and no next relation,
\* one request is issued, to the URL of the endpoint; getRelease and
\* getLatestRelease resolve with that object, the fetched array being the
\* one-element array getAllReleases resolves with, and getReleaseDownloads
\* and getLatestReleaseDownloads resolve with the sum of its counters, 0
\* when it has no assets.
C10_SingleResource ==
    LET pages == Listing
        page == pages[1]
    IN  (/\ Settled
         /\ Len(pages) = 1
         /\ Succeeds(page)
         /\ page.body.kind = "object") =>
            /\ Len(requests) = 1
            /\ outcome.state = "fulfilled"
            /\ op = "getAllReleases" => outcome.value = <<page.body.value>>
            /\ op = "getRelease" =>
                   /\ outcome.value = page.body.value
                   /\ requests[1].url =
                          "https://api.github.com/repos/foo/bar/releases/tags/v1.1.0"
            /\ op = "getLatestRelease" =>
                   /\ outcome.value = page.body.value
                   /\ requests[1].url =
                          "https://api.github.com/repos/foo/bar/releases/latest"
            /\ op \in {"getReleaseDownloads", "getLatestReleaseDownloads"} =>
                   /\ outcome.value =
                          AssetTotal(page.body.value.assets,
                                     Len(page.body.value.assets))
                   /\ page.body.value.assets = <<>> => outcome.value = 0

C10_Witness ==
    /\ op = "getLatestRelease"
    /\ outcome.state = "fulfilled"
    /\ Len(Listing) = 1
    /\ Listing[1].body.kind = "object"
    /\ outcome.value = Listing[1].body.value
    /\ Len(outcome.value.assets) = 2
    /\ Len(requests) = 1

(***************************************************************************)
(* C11: two invocations on one instance.                                   *)
(***************************************************************************)
RECURSIVE AllRecords(_, _)
\* The records of the first k pages, page after page.
AllRecords(pages, k) ==
    IF k = 0 THEN <<>> ELSE AllRecords(pages, k - 1) \o Records(pages[k])

\* What an invocation of `method` settles with when nothing else runs: the
\* failure of the last page that fails, else what the method makes of the
\* records of the listing.
Alone(method, pages) ==
    LET failing == {k \in 1..Len(pages) : ~Succeeds(pages[k])}
        records == AllRecords(pages, Len(pages))
    IN  IF failing # {}
        THEN Rejected(FailureOf(pages[CHOOSE k \in failing :
                                         \A j \in failing : j <= k]))
        ELSE CASE method = "getAllReleases" -> Fulfilled(records)
               [] method \in {"getRelease", "getLatestRelease"} ->
                     Fulfilled(IF records = <<>> THEN Undefined ELSE records[1])
               [] method = "getTotalDownloads" ->
                     Fulfilled(ListingTotal(pages, Len(pages)))
               [] method \in {"getReleaseDownloads",
                              "getLatestReleaseDownloads"} ->
                     IF records = <<>> THEN Rejected(TypeError("assets"))
                     ELSE Fulfilled(AssetTotal(records[1].assets,
                                               Len(records[1].assets)))

\* The settled invocations have the outcome they have alone, and each has
\* issued exactly the requests of the listing.
Undisturbed ==
    LET pages == Listing
    IN  /\ Settled =>
               /\ outcome = Alone(op, pages)
               /\ Len(requests) = Len(pages)
        /\ other.outcome.state \in {"fulfilled", "rejected"} =>
               /\ other.outcome = Alone(other.op, pages)
               /\ Len(other.requests) = Len(pages)

\* C11: two invocations on one instance, resumed in any order at their
\* awaits, settle each with exactly the value or the failure it settles
\* with when run alone, so no record gathered by one shows up in the other;
\* and no step changes the owner, the repository name or the token of the
\* instance.
C11_NoInterference ==
    /\ []Undisturbed
    /\ [][/\ repoOwner' = repoOwner
          /\ repoName' = repoName
          /\ token' = token]_vars

\* Both invocations were pending at once, neither was called again, and
\* both have settled: one with the three releases, one with their total.
C11_Witness ==
    /\ other.resumed
    /\ ~again
    /\ op = "getAllReleases"
    /\ outcome.state = "fulfilled"
    /\ Len(outcome.value) = 3
    /\ other.op = "getTotalDownloads"
    /\ other.outcome = Fulfilled(960)

(***************************************************************************)
(* C12: the options of the command line.                                   *)
(***************************************************************************)
\* The query that fits the options: latest, tagged or total; the release
\* itself (detailed) or its download count.
ModeQuery ==
    IF cli.latest
    THEN IF cli.detailed THEN "getLatestRelease" ELSE "getLatestReleaseDownloads"
    ELSE IF cli.releaseTag # ""
    THEN IF cli.detailed THEN "getRelease" ELSE "getReleaseDownloads"
    ELSE IF cli.detailed THEN "getAllReleases" ELSE "getTotalDownloads"

\* The endpoint of that query.
ModeUrl ==
    "https://api.github.com/repos/" \o cli.repoOwner \o "/" \o cli.repoName
    \o (IF cli.latest THEN "/releases/latest"
        ELSE IF cli.releaseTag # "" THEN "/releases/tags/" \o cli.releaseTag
        ELSE "/releases?per_page=100")

\* C12: until run() has checked the options nothing is requested; with a
\* release tag and the latest option, or with the detailed and the quiet
\* option, run() writes one error, sets exit code 1 and starts no query, so
\* no request is ever sent; with any other options it starts exactly one
\* query, the one that fits them, and reports no error unless that query
\* has failed.
C12_ExclusiveModes ==
    /\ cli.pc \in {"constructed", "askOwner", "askName", "exited"} =>
           /\ cli.queries = <<>>
           /\ requests = <<>>
           /\ cli.exitCode = 0
    /\ cli.pc = "done" =>
           IF \/ cli.releaseTag # "" /\ cli.latest
              \/ cli.detailed /\ cli.quiet
           THEN /\ Len(cli.stderr) = 1
                /\ cli.exitCode = 1
                /\ cli.queries = <<>>
                /\ requests = <<>>
                /\ outcome = NoCall
           ELSE /\ cli.stderr # <<>> =>
                       /\ cli.reaction = "settled"
                       /\ Len(cli.stderr) = 1
                /\ cli.exitCode = 0
                /\ cli.queries = <<ModeQuery>>
                /\ op = ModeQuery
                /\ requests # <<>>
                /\ requests[1].url = ModeUrl

\* `ghstats foo/bar -d -q`: no tag and not latest, yet detailed and quiet.
C12_Witness ==
    /\ cli.pc = "done"
    /\ cli.repoOwner = "foo"
    /\ cli.repoName = "bar"
    /\ cli.releaseTag = ""
    /\ cli.detailed
    /\ cli.quiet
    /\ ~cli.latest
    /\ cli.exitCode = 1
    /\ cli.stderr = <<"Error: You must specify either the \"detailed\" or \"quiet\" option, not both.">>
    /\ cli.stdout = <<>>
    /\ requests = <<>>

(***************************************************************************)
(* C13: termination.                                                       *)
(***************************************************************************)
\* The next relations reached from the start URL never end: a walk of
\* MaxRequests steps, more than the service has pages, still stands on a
\* page that advertises a successor.
Endless ==
    LET pages == Walk(server, StartUrl, MaxRequests)
    IN  Advertises(pages[Len(pages)])

\* C13: when every request is answered, an invocation over a chain of next
\* relations that ends settles, after exactly one request for each page up
\* to the first one that advertises no successor, however many pages there
\* are; an invocation over a chain that never ends never settles and keeps
\* issuing requests (here: as far as it is followed).
C13_TerminatesIffFinite ==
    /\ (outcome.state = "pending" /\ ~Endless) ~> Settled
    /\ [](Settled => ~Endless /\ Len(requests) = Len(Listing))
    /\ (outcome.state = "pending" /\ Endless) ~> (Len(requests) = MaxRequests)

\* A listing whose third page leads back to the second: the invocation is
\* pending after MaxRequests requests, the last ones to pages 2 and 3 again.
C13_Witness ==
    /\ Endless
    /\ Len(server) = 3
    /\ outcome.state = "pending"
    /\ Len(requests) = MaxRequests
    /\ requests[4].url = requests[2].url
    /\ requests[5].url = requests[3].url

(***************************************************************************)
(* C14: the relations of a link header.                                    *)
(***************************************************************************)
\* The URLs of the entries of `link` marked with one of `rels`.
UrlsOf(link, rels) ==
    {link[j - 1] : j \in {m \in 2..Len(link) :
                             \E rel \in rels : link[m] = ">; rel=\"" \o rel \o "\""}}

\* The response to request i has arrived and its headers have been read.
Inspected(i) ==
    \/ i < Len(requests)
    \/ Len(frames) < i
    \/ frames[i].pc # "fetch"

\* C14: once a successful response with a link header has been inspected,
\* the next request goes to the URL of the entry marked rel="next",
\* wherever it stands among the prev, last and first entries, and to the
\* URL of none of those (unless it is the URL of the next entry as well, as
\* that of last is on the page before the last one); if there is no such
\* entry no request follows.
C14_FollowsNextOnly ==
    \A i \in 1..Len(requests) :
        LET page == Serve(server, requests[i].url)
        IN  (/\ page.kind = "response"
             /\ page.ok
             /\ page.hasLink
             /\ Inspected(i)) =>
                IF UrlsOf(page.link, {"next"}) = {}
                THEN Len(requests) = i
                ELSE /\ Len(requests) > i
                     /\ UrlsOf(page.link, {"next"}) = {requests[i + 1].url}
                     /\ requests[i + 1].url
                            \notin (UrlsOf(page.link, {"prev", "last", "first"})
                                    \ UrlsOf(page.link, {"next"}))

\* The first page lists last, next, first, prev in this order, and the
\* second request went to page 2, the next one.
C14_Witness ==
    /\ server[1].kind = "response"
    /\ server[1].link = JoinEntries(<<LinkEntry(PageUrl(MaxPages), "last"),
                                      LinkEntry(PageUrl(2), "next"),
                                      LinkEntry(PageUrl(1), "first"),
                                      LinkEntry(PageUrl(1), "prev")>>)
    /\ Len(requests) >= 2
    /\ requests[2].url = PageUrl(2)
    /\ outcome.state = "fulfilled"

====
